---- MODULE Spec2Model ----
(***************************************************************************)
(* The Gemini proxy of vocal-persona-editor (src/api/gemini.ts): the       *)
(* credential pool apiClientManager, the retry/failover helper             *)
(* runAiOperationWithFallback, the recipes built on it and the HTTP        *)
(* handler that dispatches them.  Several requests are served concurrently *)
(* by one Node.js process: a request's code runs without interruption      *)
(* between two awaits, and every await is a point where other requests     *)
(* run.  The repository holds the handler module twice: src/api/gemini.ts, *)
(* which src/api/server.ts serves, and a second version of the same file   *)
(* (src/unnamed/part_003) with the same pool and the same retry helper but *)
(* its own extraction and recipes.  A process serves one of the two.       *)
(* Beside the proxy stand the store API (src/api/issues.ts and the         *)
(* personas API), whose handlers read and write one shared database, and   *)
(* the component App (src/App.tsx), which keeps the personas and their     *)
(* version histories.                                                      *)
(***************************************************************************)
EXTENDS Integers, Sequences, FiniteSets, TLC

\* Number of requests the process serves concurrently.
NumReqs == 2

\* Longest text, in tokens, handed to the extraction when every text is tried.
MaxLen == 3

\* Deepest nesting of the JSON values the remote model answers with when
\* the dressed texts are tried.
MaxDepth == 2

\* Most issues created while the WBS is asked for, and most issues created
\* by callers that race each other.
MaxIssues == 6
MaxPosts == 3

\* Most saves begun, and most fields changed, in the application.
MaxSaves == 2
MaxEdits == 1

\* Defaults of runAiOperationWithFallback.
MaxAttempts == 3
InitialDelay == 1000
BackoffFactor == 2

Reqs == 1..NumReqs

\* The two versions of the handler module.
FileApi == "src/api/gemini.ts"
File003 == "src/unnamed/part_003"

\* Values process.env.API_KEY and process.env.GEMINI_API_KEY can hold; ""
\* is an unset variable.
PrimaryKeys == {"", "kA"}
FallbackKeys == {"", "kA", "kB"}

\* undefined where a text is expected (no token is called "undefined").
Undef == <<"undefined">>

\* The values JSON.parse yields: kind is the sort of value, name the member
\* name of an object ("" when absent), scores whether an object has the
\* member scores with its four numbers.
Value(kind, name, scores) ==
    [kind |-> kind, name |-> name, scores |-> scores, items |-> <<>>]

\* An array of one element, or an object whose member "issues" is v.
Holding(kind, v) == [Value(kind, "", FALSE) EXCEPT !.items = <<v>>]

\* null where a parsed value is expected.
Null == Value("null", "", FALSE)

(***************************************************************************)
(* Errors thrown by the remote call.  status is error.status, respStatus   *)
(* is error.response.status; 0 stands for an absent property.              *)
(***************************************************************************)
E429 == [status |-> 429, respStatus |-> 0, message |-> <<"Quota Exceeded">>]
E503 == [status |-> 0, respStatus |-> 503, message |-> <<"The model is overloaded">>]
E400 == [status |-> 400, respStatus |-> 0, message |-> <<"Bad Request">>]
RemoteErrors == {E429, E503, E400}

\* No error (an unassigned lastError).
NoError == [status |-> 0, respStatus |-> 0, message |-> <<>>]

\* new Error(message): an error without status.
NewError(msg) == [status |-> 0, respStatus |-> 0, message |-> msg]

(***************************************************************************)
(* Texts are sequences of tokens: "F" is a triple-backtick fence, "j" the  *)
(* word json, " " a blank, "n" a line break, "w" a word that is no JSON,   *)
(* "t" the literal true, "k" the member "name":"n", "s" the member         *)
(* "scores":{...} with its four numbers, "m" the key "issues": whose value *)
(* follows, and the four brackets.                                         *)
(***************************************************************************)
Tokens == {"F", "j", " ", "n", "w", "t", "k", "s", "m", "{", "}", "[", "]"}

TxtEmpty == <<>>
TxtProse == <<"w", " ", "w">>
TxtFenced == <<"w", " ", "F", "j", "n", "{", "k", "}", "n", "F">>

TxtScores == <<"{", "s", "}">>

\* Every text of at most MaxLen tokens.
Texts == UNION {[1..n -> Tokens] : n \in 0..MaxLen}

\* The texts the remote model answers with.
RespTexts == {TxtEmpty, TxtProse, TxtFenced}

\* The same for a process that serves the second handler file, whose MBTI
\* recipe looks into the scores.
RespTexts003 == RespTexts \cup {TxtScores}

IsSpace(t) == t \in {" ", "n"}

RECURSIVE TrimLeft(_)
TrimLeft(s) == IF s # <<>> /\ IsSpace(Head(s)) THEN TrimLeft(Tail(s)) ELSE s

RECURSIVE TrimRight(_)
TrimRight(s) ==
    IF s # <<>> /\ IsSpace(s[Len(s)]) THEN TrimRight(SubSeq(s, 1, Len(s) - 1)) ELSE s

\* A trim that removes nothing.
Trim_None(s) == s

\* String.prototype.trim
Trim(s) == TrimRight(TrimLeft(s))

\* String.prototype.indexOf / lastIndexOf, 1-based; 0 when the token is absent.
IndexOf(s, t) ==
    IF \E p \in 1..Len(s) : s[p] = t
    THEN CHOOSE p \in 1..Len(s) : s[p] = t /\ \A q \in 1..(p - 1) : s[q] # t
    ELSE 0

LastIndexOf(s, t) ==
    IF \E p \in 1..Len(s) : s[p] = t
    THEN CHOOSE p \in 1..Len(s) : s[p] = t /\ \A q \in (p + 1)..Len(s) : s[q] # t
    ELSE 0

\* The first capture of the fenced-block pattern: the content between the
\* first fence and the next one, without the tag and the white space around
\* it; Undef when there is no match.
MarkdownMatch(text) ==
    LET open == IndexOf(text, "F")
        rest == IF open = 0 THEN <<>> ELSE SubSeq(text, open + 1, Len(text))
        close == IndexOf(rest, "F")
        inner == IF close = 0 THEN <<>> ELSE SubSeq(rest, 1, close - 1)
        untagged == IF inner # <<>> /\ Head(inner) = "j" THEN Tail(inner) ELSE inner
    IN  IF open = 0 \/ close = 0 THEN Undef ELSE Trim(untagged)

\* The candidate generateWithSchema hands to JSON.parse.
Candidate(responseText) ==
    LET text == Trim(responseText)
        m == MarkdownMatch(text)
        firstBrace == IndexOf(text, "{")
        lastBrace == LastIndexOf(text, "}")
    IN  IF m # Undef /\ m # <<>> THEN m
        ELSE IF firstBrace # 0 /\ lastBrace > firstBrace
             THEN SubSeq(text, firstBrace, lastBrace)
             ELSE text

\* JSON.parse on the token texts.  White space between tokens is
\* insignificant; a value is true, an object with at most one member, or an
\* array with at most one element (the texts hold no comma); the member
\* "issues" and the element are values themselves.  Null stands for the
\* SyntaxError (no text of the model encodes null).
NoSpaces(s) == SelectSeq(s, LAMBDA t : ~IsSpace(t))

RECURSIVE ParseValue(_)
ParseValue(t) ==
    IF t = <<"t">> THEN Value("true", "", FALSE)
    ELSE IF t = <<"{", "}">> THEN Value("object", "", FALSE)
    ELSE IF t = <<"{", "k", "}">> THEN Value("object", "n", FALSE)
    ELSE IF t = <<"{", "s", "}">> THEN Value("object", "", TRUE)
    ELSE IF t = <<"[", "]">> THEN Value("array", "", FALSE)
    ELSE IF Len(t) > 2 /\ t[1] = "[" /\ t[Len(t)] = "]"
              /\ ParseValue(SubSeq(t, 2, Len(t) - 1)) # Null
         THEN Holding("array", ParseValue(SubSeq(t, 2, Len(t) - 1)))
    ELSE IF Len(t) > 3 /\ t[1] = "{" /\ t[2] = "m" /\ t[Len(t)] = "}"
              /\ ParseValue(SubSeq(t, 3, Len(t) - 1)) # Null
         THEN Holding("object", ParseValue(SubSeq(t, 3, Len(t) - 1)))
    ELSE Null

JsonParse(c) == ParseValue(NoSpaces(c))

\* The fenced-block pattern of the second handler file (part_003): the
\* fence, json and a line break, then the shortest content that a line
\* break and a fence follow; Undef when there is no match.
MarkdownMatch003(text) ==
    LET closes(p) == {q \in (p + 3)..(Len(text) - 1) : text[q] = "n" /\ text[q + 1] = "F"}
        opens == {p \in 1..(Len(text) - 2) :
                    /\ text[p] = "F" /\ text[p + 1] = "j" /\ text[p + 2] = "n"
                    /\ closes(p) # {}}
        open == CHOOSE p \in opens : \A o \in opens : p <= o
        close == CHOOSE q \in closes(open) : \A c \in closes(open) : q <= c
    IN  IF opens = {} THEN Undef ELSE SubSeq(text, open + 3, close - 1)

\* The candidate generateWithSchema of part_003 hands to JSON.parse: the
\* fenced content, else the bracket span, else the brace span, else the text.
Candidate003(responseText) ==
    LET text == Trim(responseText)
        m == MarkdownMatch003(text)
        firstBracket == IndexOf(text, "[")
        lastBracket == LastIndexOf(text, "]")
        firstBrace == IndexOf(text, "{")
        lastBrace == LastIndexOf(text, "}")
    IN  IF m # Undef /\ m # <<>> THEN m
        ELSE IF firstBracket # 0 /\ lastBracket > firstBracket
             THEN SubSeq(text, firstBracket, lastBracket)
        ELSE IF firstBrace # 0 /\ lastBrace > firstBrace
             THEN SubSeq(text, firstBrace, lastBrace)
        ELSE text

(***************************************************************************)
(* The credential pool.                                                    *)
(***************************************************************************)

\* An enrolment that does not compare the fallback with the primary.
EnrolledClients_NoCompare(e) ==
    LET first == IF e.API_KEY # "" THEN <<e.API_KEY>> ELSE <<>>
    IN  IF e.GEMINI_API_KEY # "" THEN Append(first, e.GEMINI_API_KEY) ELSE first

\* An enrolment that adds a third, built-in credential.
EnrolledClients_Three(e) ==
    LET first == IF e.API_KEY # "" THEN <<e.API_KEY>> ELSE <<>>
        second == IF e.GEMINI_API_KEY # "" /\ e.GEMINI_API_KEY # e.API_KEY
                  THEN Append(first, e.GEMINI_API_KEY)
                  ELSE first
    IN  Append(second, "kC")

\* apiClientManager.initialize: the clients enrolled from the environment.
EnrolledClients(e) ==
    LET primaryApiKey == e.API_KEY
        fallbackApiKey == e.GEMINI_API_KEY
        first == IF primaryApiKey # "" THEN <<primaryApiKey>> ELSE <<>>
    IN  IF fallbackApiKey # "" /\ fallbackApiKey # primaryApiKey
        THEN Append(first, fallbackApiKey)
        ELSE first

\* An initialize without the early return: it enrols again on every call.
Initialize_Again(isInitialized, pool, e) == pool \o EnrolledClients(e)

\* apiClientManager.initialize on a pool: nothing once initialized, else
\* the enrolled clients are pushed.
Initialize(isInitialized, pool, e) ==
    IF isInitialized THEN pool ELSE pool \o EnrolledClients(e)

\* A guard that also lets the index step past the last client.
CanSwitch_PastEnd(activeIndex, poolSize) == activeIndex + 1 <= poolSize

\* The guard of apiClientManager.switchToNextClient.
CanSwitch(activeIndex, poolSize) == activeIndex + 1 < poolSize

(***************************************************************************)
(* runAiOperationWithFallback.                                             *)
(***************************************************************************)

\* A classification that fails over on a 503 as well.
Classify_503AsQuota(error) ==
    IF error.status = 429 \/ error.respStatus = 503 THEN "quota" ELSE "other"

\* The classification of a caught error.
Classify(error) ==
    IF error.status = 429 THEN "quota"
    ELSE IF error.respStatus = 503 THEN "unavail"
    ELSE "other"

\* A catch block that backs off and retries when the pool is exhausted.
OnError_ExhaustedRetries(class, switched) ==
    IF class = "quota" THEN (IF switched THEN "failover" ELSE "sleep")
    ELSE IF class = "unavail" THEN "sleep"
    ELSE "throw"

\* A catch block that backs off and retries after any other error.
OnError_RetryOther(class, switched) ==
    IF class = "quota" THEN (IF switched THEN "failover" ELSE "throw")
    ELSE "sleep"

\* What the catch block does: "failover" (recursive call), "sleep" or "throw".
OnError(class, switched) ==
    IF class = "quota" THEN (IF switched THEN "failover" ELSE "throw")
    ELSE IF class = "unavail" THEN "sleep"
    ELSE "throw"

\* A loop that never gives up.
LoopContinues_Always(i, retries) == TRUE

\* A loop condition that allows one attempt more.
LoopContinues_OneMore(i, retries) == i <= retries

\* The loop condition.
LoopContinues(i, retries) == i < retries

\* A backoff that never grows.
NextDelay_Constant(delay, backoffFactor) == delay

\* delay *= backoffFactor
NextDelay(delay, backoffFactor) == delay * backoffFactor

\* A failover that charges the failed attempt to the budget.
FailoverRetries_Spent(retries, i) == retries - i - 1

\* The attempt budget and the delay the recursive call receives on failover.
FailoverRetries(retries, i) == retries - i

\* A failover that starts the backoff over.
FailoverDelay_Reset(delay) == InitialDelay

FailoverDelay(delay) == delay

VARIABLES
    file,               \* the version of the handler module the process serves
    env,                \* process.env: API_KEY, GEMINI_API_KEY
    clients,            \* apiClientManager.clients (the keys, in order)
    activeClientIndex,  \* apiClientManager.activeClientIndex (0-based)
    initialized,        \* apiClientManager.initialized
    rq                  \* the requests being served, one record each

VARIABLES
    vercelEnv,          \* process.env.VERCEL_ENV is set (src/api/issues.ts)
    db,                 \* the stored database: db.json or the blob issues_data
    ledger,             \* the issue ids made, and what the store API acknowledged
    st,                 \* the callers of the store API, one record each
    app                 \* the state of the component App (src/App.tsx)

\* The state outside the Gemini proxy.
others == <<vercelEnv, db, ledger, st, app>>

\* The state of the Gemini proxy.
apiVars == <<file, env, clients, activeClientIndex, initialized, rq>>

vars == <<apiVars, others>>

(***************************************************************************)
(* A request: pc is where its code stands ("idle": not arrived, "await":   *)
(* the remote operation is in flight, "sleep": in sleep(delay), "ret":     *)
(* runAiOperationWithFallback has settled and its caller resumes next,     *)
(* "done": responded).  retries, i, delay and lastError are the frame of   *)
(* the innermost runAiOperationWithFallback; client is the pool index of   *)
(* the client the operation in flight talks to; chat is the client the     *)
(* chat session was created with; synth is synthesizedText; res is the     *)
(* response.  log, startIndex, intr, malformed and runFailed record what   *)
(* happened: log the events of the current top-level run (each call with   *)
(* the client it used, each error, each sleep with its delay, each         *)
(* successful switchToNextClient), startIndex the active index when that   *)
(* run began, intr whether another request advanced the index since,       *)
(* malformed the candidate the last extraction of the dispatch could not   *)
(* parse, and runFailed how a run of the dispatch ended terminally.        *)
(***************************************************************************)
NoRes == [status |-> 0, kind |-> "none", val |-> <<>>]
NoRun == [ok |-> FALSE, text |-> Undef, err |-> NoError]

IdleReq ==
    [pc |-> "idle", action |-> "", stage |-> 0,
     retries |-> 0, i |-> 0, delay |-> 0, lastError |-> NoError,
     client |-> -1, chat |-> -1, synth |-> Undef,
     runRes |-> NoRun, res |-> NoRes,
     log |-> <<>>, startIndex |-> -1, intr |-> FALSE,
     malformed |-> Undef, runFailed |-> ""]

\* One execution of the operation: getActiveClient() and fn(client).  The
\* sendMessage operations ignore the client and use the chat session.
UsesChat(s) == s.action \in {"getPersonaChatResponse", "getHelpChatResponse"} /\ s.stage = 2

\* An attempt that calls the active client and the one after it at once.
BeginAttempt_FanOut(s, activeIndex) ==
    [s EXCEPT !.pc = "await", !.client = activeIndex,
              !.log = @ \o <<[t |-> "call", used |-> activeIndex],
                             [t |-> "call", used |-> activeIndex + 1]>>]

\* An attempt that always talks to the first client of the pool.
BeginAttempt_Primary(s, activeIndex) ==
    [s EXCEPT !.pc = "await", !.client = 0,
              !.log = Append(@, [t |-> "call", used |-> 0])]

BeginAttempt(s, activeIndex) ==
    LET used == IF UsesChat(s) THEN s.chat ELSE activeIndex
    IN  [s EXCEPT !.pc = "await", !.client = used,
                  !.log = Append(@, [t |-> "call", used |-> used])]

\* throw out of runAiOperationWithFallback
Throw(s, error) ==
    [s EXCEPT !.pc = "ret", !.client = -1,
              !.retries = 0, !.i = 0, !.delay = 0, !.lastError = NoError,
              !.runRes = [ok |-> FALSE, text |-> Undef, err |-> error],
              !.runFailed = IF Classify(error) = "quota" THEN "exhausted"
                            ELSE IF Classify(error) = "unavail" THEN "retries"
                            ELSE @]

\* The head of the for loop: another attempt, or "All retries failed".
LoopIter(s, activeIndex) ==
    IF LoopContinues(s.i, s.retries)
    THEN BeginAttempt(s, activeIndex)
    ELSE Throw(s, s.lastError)

\* A top-level call runAiOperationWithFallback(fn) with the default arguments.
StartRun(s, stage, activeIndex) ==
    LoopIter([s EXCEPT !.stage = stage, !.retries = MaxAttempts, !.i = 0,
                       !.delay = InitialDelay, !.lastError = NoError,
                       !.runRes = NoRun, !.log = <<>>, !.intr = FALSE,
                       !.startIndex = activeIndex],
             activeIndex)

(***************************************************************************)
(* The recipes.                                                            *)
(***************************************************************************)
KnownActions ==
    {"createPersonaFromWeb", "extractParamsFromDoc", "updateParamsFromSummary",
     "generateSummaryFromParams", "generateShortSummary", "generateShortTone",
     "generateChangeSummary", "generateMbtiProfile",
     "generateRefinementWelcomeMessage", "continuePersonaCreationChat",
     "translateNameToRomaji", "getPersonaChatResponse", "getHelpChatResponse"}

\* The cases of the switch in each version of handler.
KnownActions003 ==
    KnownActions \cup {"generateUsageGuideWelcomeMessage", "refineIssueText",
                       "generateWBSFromIssues"}
KnownActionsOf(f) == IF f = File003 THEN KnownActions003 ELSE KnownActions

\* The actions whose result is structured data recovered from the model's text.
StructuredActions ==
    {"extractParamsFromDoc", "updateParamsFromSummary", "createPersonaFromWeb",
     "generateMbtiProfile", "continuePersonaCreationChat"}

\* The action names requests arrive with.  Requests interact only through
\* the pool, which every recipe touches through runAiOperationWithFallback
\* alone: the first request dispatches every action (and a name the handler
\* does not know), the others one action with a single run.
Actions == KnownActions \cup {"deletePersona"}
PlainActions == {"generateSummaryFromParams"}

\* The recipes of the second handler file that differ in how a failure of
\* generateWithSchema reaches the response.
Actions003 == {"extractParamsFromDoc", "generateMbtiProfile"}
ActionsOf(r) == IF r = 1 THEN Actions ELSE PlainActions
Methods == {"POST", "GET"}

\* res.status(status).json(...)
Respond(s, status, kind, val) ==
    [IdleReq EXCEPT !.pc = "done", !.action = s.action,
                    !.res = [status |-> status, kind |-> kind, val |-> val],
                    !.malformed = s.malformed, !.runFailed = s.runFailed]

\* The catch block of handler.
Catch(s, error) ==
    Respond(s, IF error.status # 0 THEN error.status ELSE 500, "message", error.message)

\* The try block that ends generateWithSchema, on the outcome rr of the run
\* and the candidate text.  cand is the candidate when JSON.parse was
\* reached or the text was empty.
ParseCandidate(rr, text) ==
    IF ~rr.ok
    THEN [ok |-> FALSE, val |-> Null, err |-> rr.err, cand |-> Undef]
    ELSE LET parsed == JsonParse(text)
         IN  IF text = <<>>
             THEN [ok |-> FALSE, val |-> Null, cand |-> text,
                   err |-> NewError(<<"Failed to parse JSON from AI response",
                                      "AI returned an empty response.", text>>)]
             ELSE IF parsed = Null
             THEN [ok |-> FALSE, val |-> Null, cand |-> text,
                   err |-> NewError(<<"Failed to parse JSON from AI response",
                                      "SyntaxError", text>>)]
             ELSE [ok |-> TRUE, val |-> parsed, err |-> NoError, cand |-> Undef]

\* The part of generateWithSchema after the run: the candidate and its parse.
GenerateWithSchema(rr) == ParseCandidate(rr, Candidate(rr.text))

\* The same of the second handler file.
GenerateWithSchema003(rr) == ParseCandidate(rr, Candidate003(rr.text))

\* Remember the candidate an extraction could not parse; a parsed one clears it.
NoteExtraction(s, g) ==
    [s EXCEPT !.malformed = IF g.ok THEN Undef
                            ELSE IF g.cand # Undef THEN g.cand
                            ELSE @]

\* The field-by-field normalisation: raw?.name || ''.
Normalise(raw) == [name |-> raw.name]

\* heuristicExtractFromText: null for an empty text, else the fields found
\* by the patterns (no token text of the model matches the name patterns).
HeuristicExtractFromText(text) ==
    IF text = <<>> THEN Null ELSE Value("object", "", FALSE)

\* text.toLowerCase().replace(/[^a-z0-9]/g, '_') on tokens.
Romaji(text) == [p \in 1..Len(text) |-> IF text[p] = "w" THEN "w" ELSE "_"]

ChangeSummaryDefault == <<"updated">>

\* extractParamsFromDoc and updateParamsFromSummary after generateWithSchema.
ResumeExtractParams(s) ==
    LET g == GenerateWithSchema(s.runRes)
        raw == IF g.ok THEN g.val ELSE Null
    IN  Respond(NoteExtraction(s, g), 200, "persona", Normalise(raw))

ResumeMbtiProfile(s) ==
    LET g == GenerateWithSchema(s.runRes)
    IN  IF g.ok THEN Respond(NoteExtraction(s, g), 200, "mbti", g.val)
        ELSE Catch(NoteExtraction(s, g), g.err)

ResumePersonaFromWeb(s, activeIndex) ==
    LET g == GenerateWithSchema(s.runRes)
        noted == NoteExtraction(s, g)
    IN  IF s.stage = 1
        THEN IF ~s.runRes.ok THEN Catch(s, s.runRes.err)
             ELSE IF s.runRes.text = <<>>
             THEN Catch(s, NewError(<<"AI could not find enough information on the topic.">>))
             ELSE StartRun([s EXCEPT !.synth = s.runRes.text], 2, activeIndex)
        ELSE IF g.ok THEN Respond(noted, 200, "web", Normalise(g.val))
        ELSE IF s.stage = 2 THEN StartRun(noted, 3, activeIndex)
        ELSE Respond(noted, 200, "web", Normalise(HeuristicExtractFromText(s.synth)))

ResumeCreationChat(s) ==
    LET jsonText == Candidate(s.runRes.text)
        parsed == JsonParse(jsonText)
        g == [ok |-> jsonText # <<>> /\ parsed # Null, cand |-> jsonText]
    IN  IF ~s.runRes.ok THEN Catch(s, s.runRes.err)
        ELSE IF g.ok
        THEN Respond(NoteExtraction(s, g), 200, "chat",
                     [responseText |-> IF parsed.name # "" THEN <<parsed.name>> ELSE <<"...">>,
                      updatedParameters |-> "{}"])
        ELSE Respond(NoteExtraction(s, g), 200, "chat",
                     [responseText |-> jsonText, updatedParameters |-> "{}"])

ResumeFreeText(s) ==
    LET text == s.runRes.text
    IN  IF ~s.runRes.ok THEN Catch(s, s.runRes.err)
        ELSE IF s.action \in {"generateShortSummary", "generateShortTone"}
        THEN Respond(s, 200, "text", Trim(text))
        ELSE IF s.action = "generateChangeSummary"
        THEN Respond(s, 200, "text", IF Trim(text) # <<>> THEN Trim(text) ELSE ChangeSummaryDefault)
        ELSE IF s.action = "translateNameToRomaji"
        THEN Respond(s, 200, "text", Romaji(Trim(text)))
        ELSE Respond(s, 200, "text", text)

\* getPersonaChatResponse and getHelpChatResponse: chats.create, then sendMessage.
ResumeChat(s, activeIndex) ==
    IF ~s.runRes.ok THEN Catch(s, s.runRes.err)
    ELSE IF s.stage = 1 THEN StartRun([s EXCEPT !.chat = s.client], 2, activeIndex)
    ELSE Respond(s, 200, "text", s.runRes.text)

\* extractParamsFromDoc and updateParamsFromSummary of the second handler
\* file: a failure of generateWithSchema is not caught.
ResumeExtractParams003(s) ==
    LET g == GenerateWithSchema003(s.runRes)
    IN  IF g.ok THEN Respond(NoteExtraction(s, g), 200, "persona", Normalise(g.val))
        ELSE Catch(NoteExtraction(s, g), g.err)

\* The message generateMbtiProfile of the second handler file throws in
\* place of any error ("MBTI profile generation failed. The response format
\* of the AI is invalid.", in Japanese in the source).
MbtiFailedMessage == <<"MBTI profile generation failed: invalid AI response format">>

\* generateMbtiProfile of the second handler file: the scores are validated
\* and every error, of the run, the parse or the validation, is replaced.
ResumeMbtiProfile003(s) ==
    LET g == GenerateWithSchema003(s.runRes)
    IN  IF g.ok /\ g.val.scores
        THEN Respond(NoteExtraction(s, g), 200, "mbti", g.val)
        ELSE Catch(NoteExtraction(s, g), NewError(MbtiFailedMessage))

\* refineIssueText and generateWBSFromIssues of the second handler file:
\* the result of generateWithSchema is the result of the recipe.
ResumePassThrough003(s) ==
    LET g == GenerateWithSchema003(s.runRes)
    IN  IF g.ok THEN Respond(NoteExtraction(s, g), 200, "value", g.val)
        ELSE Catch(NoteExtraction(s, g), g.err)

ResumeRecipe003(s) ==
    IF s.action = "generateMbtiProfile" THEN ResumeMbtiProfile003(s)
    ELSE IF s.action \in {"refineIssueText", "generateWBSFromIssues"}
         THEN ResumePassThrough003(s)
    ELSE ResumeExtractParams003(s)

\* The caller of runAiOperationWithFallback resumes with the run's outcome.
ResumeRecipe(s, activeIndex) ==
    IF s.action \in {"extractParamsFromDoc", "updateParamsFromSummary"} THEN ResumeExtractParams(s)
    ELSE IF s.action = "generateMbtiProfile" THEN ResumeMbtiProfile(s)
    ELSE IF s.action = "createPersonaFromWeb" THEN ResumePersonaFromWeb(s, activeIndex)
    ELSE IF s.action = "continuePersonaCreationChat" THEN ResumeCreationChat(s)
    ELSE IF s.action \in {"getPersonaChatResponse", "getHelpChatResponse"} THEN ResumeChat(s, activeIndex)
    ELSE ResumeFreeText(s)

ConfigMessage ==
    <<"Server configuration error: No API_KEY or GEMINI_API_KEY environment variable is set.">>

\* apiClientManager.getActiveClient: the index of the active client, or the
\* configuration error when no client is enrolled.
GetActiveClient(pool, activeIndex) ==
    IF Len(pool) = 0
    THEN [ok |-> FALSE, client |-> -1, err |-> NewError(ConfigMessage)]
    ELSE [ok |-> TRUE, client |-> activeIndex, err |-> NoError]

\* A handler that never notices an empty pool.
PoolIsEmpty_Never(pool) == FALSE

\* apiClientManager.clients.length === 0
PoolIsEmpty(pool) == Len(pool) = 0

\* handler, from the method check to the first await of the recipe.  filled
\* says whether the payload holds the text the recipe needs.
Dispatch(s, method, action, filled, pool, activeIndex) ==
    LET t == [s EXCEPT !.action = action]
    IN  IF method # "POST" THEN Respond(t, 405, "error", <<"Method Not Allowed">>)
        ELSE IF PoolIsEmpty(pool) THEN Respond(t, 500, "message", ConfigMessage)
        ELSE IF action \notin KnownActionsOf(file)
        THEN Respond(t, 400, "message", <<"Invalid action", action>>)
        ELSE IF action \in {"generateShortSummary", "generateShortTone"} /\ ~filled
        THEN Respond(t, 200, "text", <<>>)
        ELSE IF action \in {"getPersonaChatResponse", "getHelpChatResponse"} /\ ~filled
        THEN Catch(t, NewError(<<"No message provided to send.">>))
        ELSE StartRun(t, 1, activeIndex)

(***************************************************************************)
(* The store API (src/api/issues.ts, and the personas API of               *)
(* src/unnamed/part_000 on the same file db.json / blob issues_data).      *)
(* Every handler reads the whole database, changes its copy and writes the *)
(* whole copy back; the read and the write are awaited, so the handlers of *)
(* concurrent callers interleave at these points.                          *)
(***************************************************************************)

\* getWbsHandler regenerates when this many issues were added.
WbsThreshold == 5

\* The two concurrent callers of the store API.
Callers == {"c1", "c2"}

\* db.wbs: absent, or the WBS generated from a list of issues.
NoWbs == [stored |-> FALSE, of |-> <<>>]

\* generateWBSFromIssues(issues), when it succeeds.
GenerateWBS(issues) == [stored |-> TRUE, of |-> issues]

\* The default structure of readDb; an absent issueCountForWbs reads as 0
\* (db.issueCountForWbs || 0).
DefaultDb == [personas |-> <<>>, issues |-> <<>>, wbs |-> NoWbs, issueCountForWbs |-> 0]

\* The persona lists a savePersonas request carries.
PersonaLists == {<<"p1">>, <<"p1", "p2">>}

NoStoreRes == [status |-> 0, kind |-> "none", val |-> <<>>]

\* A caller: pc is "idle", "read" (readDb in flight), "generate"
\* (generateWBSFromIssues in flight), "write" (writeDb in flight) or "done";
\* data is the handler's copy of the database, ok the response it sends
\* when the write succeeds.
IdleCaller ==
    [pc |-> "idle", handler |-> "", body |-> <<>>, data |-> DefaultDb,
     ok |-> NoStoreRes, res |-> NoStoreRes]

StoreRespond(s, status, kind, val) ==
    [IdleCaller EXCEPT !.pc = "done", !.handler = s.handler,
                       !.res = [status |-> status, kind |-> kind, val |-> val]]

\* The catch block of each handler.
StoreCatch(s) == StoreRespond(s, 500, "error", <<"Internal Server Error">>)

\* The method a handler serves.
MethodOf(handler) == IF handler = "getWbs" THEN "GET" ELSE "POST"

\* The condition of getWbsHandler for a new generation.
NeedsGeneration(d) ==
    LET issueCount == Len(d.issues)
        cachedIssueCount == d.issueCountForWbs
    IN  issueCount - cachedIssueCount >= WbsThreshold \/ ~d.wbs.stored

\* The number of createIssue requests that have not made their id yet.
Pending == Cardinality({c \in Callers : st[c].pc = "read" /\ st[c].handler = "createIssue"})

\* A request arrives at one of the handlers: the method check, the check of
\* the body, and the call of readDb.  valid says whether the body has what
\* the handler requires (title and body; an array); most bounds the issues.
StoreArrives(c, handlers, most) ==
    /\ st[c].pc = "idle"
    /\ \E handler \in handlers, method \in Methods, valid \in BOOLEAN, list \in PersonaLists :
         LET s == [st[c] EXCEPT !.handler = handler]
         IN  /\ (handler = "createIssue" /\ method = "POST" /\ valid)
                    => ledger.issued + Pending < most
             /\ st' = [st EXCEPT ![c] =
                    IF method # MethodOf(handler)
                    THEN StoreRespond(s, 405, "error", <<"Method Not Allowed">>)
                    ELSE IF handler # "getWbs" /\ ~valid
                    THEN StoreRespond(s, 400, "error", <<"Bad Request">>)
                    ELSE [s EXCEPT !.pc = "read",
                                   !.body = IF handler = "savePersonas" THEN list ELSE <<>>]]
    /\ UNCHANGED <<vercelEnv, db, ledger, app, apiVars>>

\* The handler after readDb returned d.
AfterRead(s, d, id) ==
    IF s.handler = "createIssue"
    THEN [s EXCEPT !.pc = "write",
                   !.data = [d EXCEPT !.issues = Append(@, id)],
                   !.ok = [status |-> 201, kind |-> "issue", val |-> <<id>>]]
    ELSE IF s.handler = "savePersonas"
    THEN [s EXCEPT !.pc = "write",
                   !.data = [d EXCEPT !.personas = s.body],
                   !.ok = [status |-> 200, kind |-> "saved", val |-> <<>>]]
    ELSE IF NeedsGeneration(d)
    THEN [s EXCEPT !.pc = "generate", !.data = d]
    ELSE StoreRespond(s, 200, "wbs", <<d.wbs>>)

\* readDb ends: with the stored database, or with a failure of the read,
\* which throws when the store is db.json and yields the default structure
\* when it is the blob.
ReadEnds(c) ==
    /\ st[c].pc = "read"
    /\ \E failed \in BOOLEAN :
         LET id == ledger.issued + 1
             makes == st[c].handler = "createIssue" /\ (~failed \/ vercelEnv)
         IN  /\ st' = [st EXCEPT ![c] =
                    IF ~failed THEN AfterRead(@, db, id)
                    ELSE IF vercelEnv THEN AfterRead(@, DefaultDb, id)
                    ELSE StoreCatch(@)]
             /\ ledger' = [ledger EXCEPT !.issued = IF makes THEN id ELSE @]
    /\ UNCHANGED <<vercelEnv, db, app, apiVars>>

\* generateWBSFromIssues ends: with the new WBS, which the handler puts into
\* its copy with the issue count, or with an error.
GenerationEnds(c) ==
    /\ st[c].pc = "generate"
    /\ \E failed \in BOOLEAN :
         LET s == st[c]
             issues == s.data.issues
             newWbs == GenerateWBS(issues)
         IN  st' = [st EXCEPT ![c] =
                      IF failed THEN StoreCatch(s)
                      ELSE [s EXCEPT !.pc = "write",
                                     !.data = [s.data EXCEPT !.wbs = newWbs,
                                                             !.issueCountForWbs = Len(issues)],
                                     !.ok = [status |-> 200, kind |-> "wbs",
                                             val |-> <<newWbs>>]]]
    /\ UNCHANGED <<vercelEnv, db, ledger, app, apiVars>>

\* writeDb ends: the copy replaces the stored database and the handler
\* responds, or the write fails.
WriteEnds(c) ==
    /\ st[c].pc = "write"
    /\ \E failed \in BOOLEAN :
         IF failed
         THEN /\ st' = [st EXCEPT ![c] = StoreCatch(@)]
              /\ UNCHANGED <<db, ledger>>
         ELSE /\ db' = st[c].data
              /\ st' = [st EXCEPT ![c] = StoreRespond(@, @.ok.status, @.ok.kind, @.ok.val)]
              /\ ledger' = [ledger EXCEPT
                     !.acked = IF st[c].handler = "createIssue"
                               THEN @ \cup {st[c].ok.val[1]} ELSE @,
                     !.saved = IF st[c].handler = "savePersonas"
                               THEN st[c].body ELSE @]
    /\ UNCHANGED <<vercelEnv, app, apiVars>>

\* The response is sent; the caller makes its next request.
StoreFinish(c) ==
    /\ st[c].pc = "done"
    /\ st' = [st EXCEPT ![c] = IdleCaller]
    /\ UNCHANGED <<vercelEnv, db, ledger, app, apiVars>>

(***************************************************************************)
(* The component App (src/App.tsx) and the persona editor: the list of     *)
(* personas with their version histories.  A persona is its id, its state  *)
(* (the content of its fields, a number here) and its history, newest      *)
(* entry first; an entry holds a state and the time it was made.  While a  *)
(* save is in flight the Loader covers the screen, so no other handler     *)
(* runs before the save commits or fails.                                  *)
(***************************************************************************)

\* The number of history entries handleSavePersona keeps.
HistoryLimit == 10

\* Array.prototype.slice(0, n)
Slice(s, n) == SubSeq(s, 1, IF Len(s) < n THEN Len(s) ELSE n)

\* A history with the new entry placed last.
UpdatedHistory_Last(newHistoryEntry, history) ==
    Slice(history \o <<newHistoryEntry>>, HistoryLimit)

\* updatedHistory of handleSavePersona.
UpdatedHistory(newHistoryEntry, history) ==
    Slice(<<newHistoryEntry>> \o history, HistoryLimit)

NoSave == [active |-> FALSE, id |-> 0, state |-> 0, personas |-> <<>>]

\* No persona is open in the editor (no persona has the id 0).
NoEditor == [id |-> 0, state |-> 0]

\* The index of the persona with the given id in a list (personas.find);
\* 0 when there is none.
Find(list, id) ==
    IF \E k \in 1..Len(list) : list[k].id = id
    THEN CHOOSE k \in 1..Len(list) : list[k].id = id /\ \A j \in 1..(k - 1) : list[j].id # id
    ELSE 0

\* The default persona (id 1) after h saves, each of a new content: its
\* state is h and its history holds the states before the last saves.
DefaultPersona(h) ==
    LET kept == IF h < HistoryLimit THEN h ELSE HistoryLimit
    IN  [id |-> 1, state |-> h,
         history |-> [k \in 1..kept |-> [state |-> h - k, timestamp |-> h - k + 1]]]

\* The application in the list view after h saves of the default persona.
\* clock is the time of the last save, fresh the last content typed, saves
\* and edits count the saves begun and the fields changed from here on,
\* made the personas created; versions counts, per persona id, the saves
\* of the existing persona that committed.
AppAfter(h) ==
    [personas |-> <<DefaultPersona(h)>>,
     parameters |-> NoEditor,
     saving |-> NoSave,
     clock |-> h, fresh |-> h,
     saves |-> 0, edits |-> 0, made |-> 0,
     versions |-> [id \in 1..(MaxSaves + 1) |-> IF id = 1 THEN h ELSE 0]]

Editing == app.parameters.id # 0
Saving == app.saving.active

\* handleOpenEditor: the editor opens on a persona of the list.
HandleOpenEditor ==
    /\ ~Saving /\ ~Editing
    /\ \E k \in 1..Len(app.personas) :
         app' = [app EXCEPT !.parameters = [id |-> app.personas[k].id,
                                            state |-> app.personas[k].state]]
    /\ UNCHANGED <<vercelEnv, db, ledger, st, apiVars>>

\* handleBackToList
HandleBackToList ==
    /\ ~Saving /\ Editing
    /\ app' = [app EXCEPT !.parameters = NoEditor]
    /\ UNCHANGED <<vercelEnv, db, ledger, st, apiVars>>

\* handleDeletePersona, from the list view.
HandleDeletePersona ==
    /\ ~Saving /\ ~Editing
    /\ \E k \in 1..Len(app.personas) :
         app' = [app EXCEPT !.personas =
                    SelectSeq(@, LAMBDA q : q.id # app.personas[k].id)]
    /\ UNCHANGED <<vercelEnv, db, ledger, st, apiVars>>

\* A field of the editor changes: the parameters hold a content not seen
\* before.
HandleFieldChange ==
    /\ ~Saving /\ Editing
    /\ app.edits < MaxEdits
    /\ app' = [app EXCEPT !.parameters.state = app.fresh + 1,
                          !.fresh = @ + 1, !.edits = @ + 1]
    /\ UNCHANGED <<vercelEnv, db, ledger, st, apiVars>>

\* handleRevert: the parameters take the state of a history entry of the
\* persona being edited.
HandleRevert ==
    /\ ~Saving /\ Editing
    /\ LET k == Find(app.personas, app.parameters.id)
       IN  /\ k # 0
           /\ \E e \in 1..Len(app.personas[k].history) :
                app' = [app EXCEPT !.parameters.state = app.personas[k].history[e].state]
    /\ UNCHANGED <<vercelEnv, db, ledger, st, apiVars>>

\* handleSavePersona up to its first await: called by the editor with its
\* parameters, or by the create modal with a new content and no id.  The
\* callback holds the list of personas of the render it was made in.
HandleSaveBegins ==
    /\ ~Saving
    /\ app.saves < MaxSaves
    /\ app' = [app EXCEPT
                 !.saving = [active |-> TRUE,
                             id |-> app.parameters.id,
                             state |-> IF Editing THEN app.parameters.state ELSE app.fresh + 1,
                             personas |-> app.personas],
                 !.fresh = IF Editing THEN @ ELSE @ + 1,
                 !.saves = @ + 1]
    /\ UNCHANGED <<vercelEnv, db, ledger, st, apiVars>>

\* One of the awaited calls of geminiService rejects: handleSavePersona
\* throws before it changes anything.
HandleSaveFails ==
    /\ Saving
    /\ app' = [app EXCEPT !.saving = NoSave]
    /\ UNCHANGED <<vercelEnv, db, ledger, st, apiVars>>

\* handleSavePersona after its awaits: the persona found in the list gets
\* the new state and a history entry with its old state; a persona not
\* found is added with an empty history.
HandleSaveCommits ==
    /\ Saving
    /\ LET personaToSave == app.saving
           k == Find(personaToSave.personas, personaToSave.id)
           existingPersona == personaToSave.personas[k]
           newHistoryEntry == [state |-> existingPersona.state, timestamp |-> app.clock + 1]
           updatedPersona == [id |-> existingPersona.id,
                              state |-> personaToSave.state,
                              history |-> UpdatedHistory(newHistoryEntry,
                                                         existingPersona.history)]
           newPersona == [id |-> app.made + 2, state |-> personaToSave.state,
                          history |-> <<>>]
       IN  IF k # 0
           THEN app' = [app EXCEPT
                          !.personas = [j \in DOMAIN @ |->
                                          IF @[j].id = updatedPersona.id
                                          THEN updatedPersona ELSE @[j]],
                          !.parameters = [id |-> updatedPersona.id,
                                          state |-> updatedPersona.state],
                          !.saving = NoSave,
                          !.clock = @ + 1,
                          !.versions[updatedPersona.id] = @ + 1]
           ELSE app' = [app EXCEPT
                          !.personas = Append(@, newPersona),
                          !.parameters = [id |-> newPersona.id, state |-> newPersona.state],
                          !.saving = NoSave,
                          !.clock = @ + 1,
                          !.made = @ + 1]
    /\ UNCHANGED <<vercelEnv, db, ledger, st, apiVars>>

\* issued is the number of issue ids made so far; acked holds the ids of
\* the issues createIssueHandler answered with 201, and saved is the list
\* the last savePersonasHandler answered with 200.
NoLedger == [issued |-> 0, acked |-> {}, saved |-> <<>>]

\* The store and the application at rest.
OthersIdle ==
    /\ vercelEnv = FALSE
    /\ db = DefaultDb
    /\ ledger = NoLedger
    /\ st = [c \in Callers |-> IdleCaller]
    /\ app = AppAfter(0)

(***************************************************************************)
(* The state machine.                                                      *)
(***************************************************************************)
Init ==
    /\ file = FileApi
    /\ env \in [API_KEY : PrimaryKeys, GEMINI_API_KEY : FallbackKeys]
    /\ clients = <<>>
    /\ activeClientIndex = 0
    /\ initialized = FALSE
    /\ rq = [r \in Reqs |-> IdleReq]
    /\ OthersIdle

\* A request arrives with one of the action names: handler runs up to its
\* first await or its response.
Arrives(r, names) ==
    /\ rq[r].pc = "idle"
    /\ \E method \in Methods, action \in names, filled \in BOOLEAN :
         LET pool == IF method = "POST"
                     THEN Initialize(initialized, clients, env)
                     ELSE clients
         IN  /\ clients' = pool
             /\ initialized' = (initialized \/ method = "POST")
             /\ rq' = [rq EXCEPT ![r] = Dispatch(@, method, action, filled, pool,
                                                 activeClientIndex)]
    /\ UNCHANGED <<others, file, env, activeClientIndex>>

Handler(r) == Arrives(r, ActionsOf(r))

\* The same for a process whose requests all carry a single-run action.
PlainHandler(r) == Arrives(r, PlainActions)

\* The same for the recipes of the second handler file.
Handler003(r) == Arrives(r, Actions003)

\* The operation in flight resolves with a response text.
OpSucceeds(r) ==
    /\ rq[r].pc = "await"
    /\ \E text \in (IF file = File003 THEN RespTexts003 ELSE RespTexts) :
         rq' = [rq EXCEPT ![r] =
                  [@ EXCEPT !.pc = "ret",
                            !.retries = 0, !.i = 0, !.delay = 0, !.lastError = NoError,
                            !.runRes = [ok |-> TRUE, text |-> text, err |-> NoError],
                            !.log = Append(@, [t |-> "ok", text |-> text])]]
    /\ UNCHANGED <<others, file, env, clients, activeClientIndex, initialized>>

\* The operation in flight rejects: the catch block, up to the next await.
OpFails(r) ==
    /\ rq[r].pc = "await"
    /\ \E error \in RemoteErrors :
         LET s == rq[r]
             class == Classify(error)
             switched == class = "quota" /\ CanSwitch(activeClientIndex, Len(clients))
             newIndex == IF switched THEN activeClientIndex + 1 ELSE activeClientIndex
             todo == OnError(class, switched)
             failed == [s EXCEPT !.lastError = error,
                                 !.log = Append(@, [t |-> "err", error |-> error])]
             mine ==
                 IF todo = "failover"
                 THEN LoopIter([failed EXCEPT !.retries = FailoverRetries(s.retries, s.i),
                                              !.i = 0,
                                              !.delay = FailoverDelay(s.delay),
                                              !.lastError = NoError,
                                              !.log = Append(@, [t |-> "switch"])],
                               newIndex)
                 ELSE IF todo = "sleep"
                 THEN [failed EXCEPT !.pc = "sleep", !.client = -1,
                                     !.log = Append(@, [t |-> "sleep", d |-> s.delay])]
                 ELSE Throw(failed, error)
         IN  /\ activeClientIndex' = newIndex
             /\ rq' = [q \in Reqs |->
                         IF q = r THEN mine
                         ELSE IF switched /\ rq[q].pc \in {"await", "sleep", "ret"}
                         THEN [rq[q] EXCEPT !.intr = TRUE]
                         ELSE rq[q]]
    /\ UNCHANGED <<others, file, env, clients, initialized>>

\* sleep(delay) is over: the rest of the iteration and the next one.
SleepEnds(r) ==
    /\ rq[r].pc = "sleep"
    /\ rq' = [rq EXCEPT ![r] =
                LoopIter([@ EXCEPT !.delay = NextDelay(@, BackoffFactor), !.i = @ + 1],
                         activeClientIndex)]
    /\ UNCHANGED <<others, file, env, clients, activeClientIndex, initialized>>

\* The recipe resumes after its run settled.
Resume(r) ==
    /\ rq[r].pc = "ret"
    /\ rq' = [rq EXCEPT ![r] = IF file = File003
                                THEN ResumeRecipe003(@)
                                ELSE ResumeRecipe(@, activeClientIndex)]
    /\ UNCHANGED <<others, file, env, clients, activeClientIndex, initialized>>

\* The response is sent; the slot serves the next request.
Finish(r) ==
    /\ rq[r].pc = "done"
    /\ rq' = [rq EXCEPT ![r] = IdleReq]
    /\ UNCHANGED <<others, file, env, clients, activeClientIndex, initialized>>

Next ==
    \E r \in Reqs :
        \/ Handler(r)
        \/ OpSucceeds(r)
        \/ OpFails(r)
        \/ SleepEnds(r)
        \/ Resume(r)
        \/ Finish(r)

Spec == Init /\ [][Next]_vars

\* The process under a load of single-run requests only: the behaviours of
\* the pool and of runAiOperationWithFallback under NumReqs concurrent runs.
NextRuns ==
    \E r \in Reqs :
        \/ PlainHandler(r)
        \/ OpSucceeds(r)
        \/ OpFails(r)
        \/ SleepEnds(r)
        \/ Resume(r)
        \/ Finish(r)

SpecRuns == Init /\ [][NextRuns]_vars

\* The same load when every operation in flight returns, with a value or
\* an error, and every sleep ends.
SpecRunsFair ==
    /\ SpecRuns
    /\ \A r \in Reqs : WF_vars(OpSucceeds(r) \/ OpFails(r))
    /\ \A r \in Reqs : WF_vars(SleepEnds(r))

\* A process that serves the second handler file.
Init003 ==
    /\ file = File003
    /\ env \in [API_KEY : PrimaryKeys, GEMINI_API_KEY : FallbackKeys]
    /\ clients = <<>>
    /\ activeClientIndex = 0
    /\ initialized = FALSE
    /\ rq = [r \in Reqs |-> IdleReq]
    /\ OthersIdle

Next003 ==
    \E r \in Reqs :
        \/ Handler003(r)
        \/ OpSucceeds(r)
        \/ OpFails(r)
        \/ SleepEnds(r)
        \/ Resume(r)
        \/ Finish(r)

Spec003 == Init003 /\ [][Next003]_vars

\* The recipe of each handler file that passes a failure of
\* generateWithSchema on to the response unchanged.
Probes ==
    {[file |-> FileApi, action |-> "generateMbtiProfile"],
     [file |-> File003, action |-> "extractParamsFromDoc"],
     [file |-> File003, action |-> "refineIssueText"],
     [file |-> File003, action |-> "generateWBSFromIssues"]}

\* Those of them whose response is the extracted value itself.
PassProbes == Probes \ {[file |-> File003, action |-> "extractParamsFromDoc"]}

\* The shape the schema of the request asks for: wbsSchema is the only
\* schema of type ARRAY, every other one is of type OBJECT.
ExpectsArray(action) == action = "generateWBSFromIssues"

\* The values of nesting depth at most d.
RECURSIVE ValuesUpTo(_)
ValuesUpTo(d) ==
    IF d = 0
    THEN {Value("true", "", FALSE), Value("object", "", FALSE),
          Value("object", "n", FALSE), Value("object", "", TRUE),
          Value("array", "", FALSE)}
    ELSE LET inner == ValuesUpTo(d - 1)
         IN  inner \cup {Holding(kind, v) : kind \in {"object", "array"}, v \in inner}

\* JSON.stringify of a value, without indentation.
RECURSIVE Stringify(_)
Stringify(v) ==
    IF v.kind = "true" THEN <<"t">>
    ELSE IF v.kind = "array"
         THEN <<"[">> \o (IF v.items = <<>> THEN <<>> ELSE Stringify(v.items[1])) \o <<"]">>
    ELSE IF v.items # <<>> THEN <<"{", "m">> \o Stringify(v.items[1]) \o <<"}">>
    ELSE IF v.scores THEN <<"{", "s", "}">>
    ELSE IF v.name = "n" THEN <<"{", "k", "}">>
    ELSE <<"{", "}">>

\* The ways the remote model dresses a JSON text: in a fenced block or
\* bare, the fence tagged json or not, the content set off by nothing, a
\* blank or a line break, and commentary before and after it, of a plain
\* word or of a word in brackets.
Commentary == {<<>>, <<"w">>, <<"[", "w", "]">>}
PlainCommentary == {<<>>, <<"w">>}

Wraps ==
    [fence : {TRUE}, tag : BOOLEAN, sep : {<<>>, <<" ">>, <<"n">>},
     pre : Commentary, post : Commentary]
      \cup [fence : {FALSE}, tag : {FALSE}, sep : {<<>>}, pre : Commentary, post : Commentary]

Wrap(body, f) ==
    LET block == IF f.fence
                 THEN <<"F">> \o (IF f.tag THEN <<"j">> ELSE <<>>) \o f.sep
                          \o body \o f.sep \o <<"F">>
                 ELSE body
    IN  (IF f.pre = <<>> THEN <<>> ELSE f.pre \o <<"n">>)
          \o block
          \o (IF f.post = <<>> THEN <<>> ELSE <<"n">> \o f.post)

WrappedTexts == {Wrap(Stringify(v), f) : v \in ValuesUpTo(MaxDepth), f \in Wraps}

\* A request whose only run, on the first client, has just returned text.
Settled(action, text) ==
    [IdleReq EXCEPT !.pc = "ret", !.action = action, !.stage = 1,
                    !.client = 0, !.startIndex = 0,
                    !.runRes = [ok |-> TRUE, text |-> text, err |-> NoError],
                    !.log = <<[t |-> "call", used |-> 0], [t |-> "ok", text |-> text]>>]

\* generateWithSchema on every text: the first request stands where the
\* remote model has answered its run with an arbitrary short text or with a
\* dressed JSON text, and the recipe resumes with the extraction.
InitExtract ==
    /\ env = [API_KEY |-> "kA", GEMINI_API_KEY |-> ""]
    /\ clients = <<"kA">>
    /\ activeClientIndex = 0
    /\ initialized = TRUE
    /\ OthersIdle
    /\ \E probe \in Probes, text \in Texts \cup WrappedTexts :
         /\ file = probe.file
         /\ rq = [r \in Reqs |-> IF r = 1 THEN Settled(probe.action, text) ELSE IdleReq]

NextExtract ==
    \/ Resume(1)
    \/ Finish(1)

SpecExtract == InitExtract /\ [][NextExtract]_vars

(***************************************************************************)
(* The store API and the application on their own.                         *)
(***************************************************************************)

\* The Gemini proxy at rest.
ApiIdle ==
    /\ file = FileApi
    /\ env = [API_KEY |-> "kA", GEMINI_API_KEY |-> ""]
    /\ clients = <<>>
    /\ activeClientIndex = 0
    /\ initialized = FALSE
    /\ rq = [r \in Reqs |-> IdleReq]

\* The store before its first request, on db.json or on the blob.
InitStore ==
    /\ ApiIdle
    /\ vercelEnv \in BOOLEAN
    /\ db = DefaultDb
    /\ ledger = NoLedger
    /\ st = [c \in Callers |-> IdleCaller]
    /\ app = AppAfter(0)

\* createIssueHandler and savePersonasHandler.
StoreHandler(c) == StoreArrives(c, {"createIssue", "savePersonas"}, MaxPosts)

\* Two callers that create issues and save personas concurrently.
NextStore ==
    \E c \in Callers :
        \/ StoreHandler(c)
        \/ ReadEnds(c)
        \/ WriteEnds(c)
        \/ StoreFinish(c)

SpecStore == InitStore /\ [][NextStore]_vars

\* The first caller asks for the WBS while the second creates issues.
WbsHandler(c) ==
    StoreArrives(c, IF c = "c1" THEN {"getWbs"} ELSE {"createIssue"}, MaxIssues)

NextWbs ==
    \E c \in Callers :
        \/ WbsHandler(c)
        \/ ReadEnds(c)
        \/ GenerationEnds(c)
        \/ WriteEnds(c)
        \/ StoreFinish(c)

SpecWbs == InitStore /\ [][NextWbs]_vars

\* The application after any number of saves of the default persona.
InitApp ==
    /\ ApiIdle
    /\ vercelEnv = FALSE
    /\ db = DefaultDb
    /\ ledger = NoLedger
    /\ st = [c \in Callers |-> IdleCaller]
    /\ \E h \in 0..HistoryLimit : app = AppAfter(h)

NextApp ==
    \/ HandleOpenEditor
    \/ HandleBackToList
    \/ HandleDeletePersona
    \/ HandleFieldChange
    \/ HandleRevert
    \/ HandleSaveBegins
    \/ HandleSaveFails
    \/ HandleSaveCommits

SpecApp == InitApp /\ [][NextApp]_vars

(***************************************************************************)
(* Reading a request's log.                                                *)
(***************************************************************************)
IsQuota(error) == error.status = 429
IsTransient(error) == error.status # 429 /\ error.respStatus = 503
IsOther(error) == error.status # 429 /\ error.respStatus # 503

\* A text that is empty or white space only.
IsBlank(text) == \A p \in 1..Len(text) : IsSpace(text[p])

\* A text of plain words, "not json at all": no fence, no bracket, no
\* literal, and not blank.
IsProse(text) ==
    /\ ~IsBlank(text)
    /\ \A p \in 1..Len(text) : text[p] \in {"w", "j", " ", "n"}

RECURSIVE Pow(_, _)
Pow(b, n) == IF n = 0 THEN 1 ELSE b * Pow(b, n - 1)

Positions(log, type) == {p \in 1..Len(log) : log[p].t = type}
Count(log, type) == Cardinality(Positions(log, type))
TransientAt(log) == {p \in Positions(log, "err") : IsTransient(log[p].error)}
QuotaAt(log) == {p \in Positions(log, "err") : IsQuota(log[p].error)}

\* The run of s has settled with the error of its last transient failure.
RetriesExhausted(s) ==
    /\ s.pc = "ret"
    /\ ~s.runRes.ok
    /\ IsTransient(s.runRes.err)

\* The run of s has settled and every attempt of it failed as transient.
AllTransient(s) ==
    /\ s.pc = "ret"
    /\ Positions(s.log, "err") # {}
    /\ Positions(s.log, "err") = TransientAt(s.log)
    /\ Positions(s.log, "ok") = {}

\* The delay of the sleep at position p of the log follows the exponential
\* schedule: InitialDelay times BackoffFactor per sleep before it.
OnSchedule(log, p) ==
    log[p].d = InitialDelay
               * Pow(BackoffFactor, Cardinality({q \in Positions(log, "sleep") : q < p}))

\* The step is the rejection of r's operation in flight with an error
\* satisfying P.
FailedWith(r, P(_)) ==
    /\ rq[r].pc = "await"
    /\ Len(rq'[r].log) > Len(rq[r].log)
    /\ rq'[r].log[Len(rq[r].log) + 1].t = "err"
    /\ P(rq'[r].log[Len(rq[r].log) + 1].error)

(***************************************************************************)
(* The claims.                                                             *)
(***************************************************************************)

\* C1: a run that failed over receives the full attempt budget again: when
\* it then fails because its transient retries ran out, the credential it
\* switched to has seen MaxAttempts transient failures (it tolerated
\* MaxAttempts - 1 of them), whatever happened before the failover.
C1_FullBudgetAfterFailover ==
    \A r \in Reqs :
        LET s == rq[r]
            switches == Positions(s.log, "switch")
            last == CHOOSE p \in switches : \A q \in switches : q <= p
        IN  (RetriesExhausted(s) /\ switches # {})
                => Cardinality({p \in TransientAt(s.log) : p > last}) = MaxAttempts

\* C2: with one credential, three consecutive transient failures produce
\* exactly the two sleeps 1000 and 2000, and the run fails directly after
\* the third failed attempt (the last event of the run is that failure, not
\* a sleep).
C2_NoSleepAfterLastAttempt ==
    \A r \in Reqs :
        LET s == rq[r]
            sleeps == Positions(s.log, "sleep")
        IN  (AllTransient(s) /\ Len(clients) = 1)
                => /\ Cardinality(sleeps) = MaxAttempts - 1
                   /\ \A p \in sleeps : OnSchedule(s.log, p)
                   /\ s.log[Len(s.log)].t = "err"

\* C3: a dispatch of a structured-output action whose last extraction could
\* not parse the model's text ends in a failure response whose message
\* carries the candidate text; it is never a 200.
C3_MalformedIsSurfaced ==
    \A r \in Reqs :
        LET s == rq[r]
        IN  (s.pc = "done" /\ s.action \in StructuredActions /\ s.malformed # Undef)
                => /\ s.res.status \notin 200..299
                   /\ s.res.kind = "message"
                   /\ s.res.val[Len(s.res.val)] = s.malformed

\* C4: a dispatch one of whose runs ended terminally, because the pool was
\* exhausted or the retries ran out, responds with a failure: a non-2xx
\* status and a message.
C4_TerminalRunFailureIsSurfaced ==
    \A r \in Reqs :
        LET s == rq[r]
        IN  (s.pc = "done" /\ s.runFailed \in {"exhausted", "retries"})
                => /\ s.res.status \notin 200..299
                   /\ s.res.kind = "message"

\* C5: whenever the pool is not empty the active index lies inside it, and
\* so does the client of every operation in flight, whatever the requests
\* have done.
C5_IndexWithinPool ==
    Len(clients) > 0 =>
        /\ 0 <= activeClientIndex
        /\ activeClientIndex < Len(clients)
        /\ \A r \in Reqs : rq[r].pc = "await" => rq[r].client \in 0..(Len(clients) - 1)

\* Two requests met a quota error; one advanced the index to the last
\* client and the advance of the other was refused.
C5_Witness ==
    /\ Len(clients) = 2
    /\ activeClientIndex = 1
    /\ \E r, q \in Reqs :
         /\ r # q
         /\ Positions(rq[r].log, "switch") # {}
         /\ rq[q].pc = "ret"
         /\ QuotaAt(rq[q].log) # {}
         /\ Positions(rq[q].log, "switch") = {}

\* C6: the active index moves only forward and only by one, in exactly the
\* steps where an attempt fails with quota-exceeded while a next client
\* exists; every other step (a success, a transient failure, another error,
\* a quota failure on the last client, a later failure of the new client)
\* leaves it unchanged.
C6_IndexAdvancesOnlyOnFailover ==
    [][IF \E r \in Reqs : FailedWith(r, IsQuota) /\ activeClientIndex + 1 < Len(clients)
       THEN activeClientIndex' = activeClientIndex + 1
       ELSE activeClientIndex' = activeClientIndex]_vars

\* A run failed over and the new client failed too: the index stays.
C6_Witness ==
    /\ activeClientIndex = 1
    /\ \E r \in Reqs :
         \E p \in Positions(rq[r].log, "switch") :
           \E q \in Positions(rq[r].log, "err") : q > p

\* C7: a failover keeps the backoff delay and retries at once: every sleep
\* of a run lasts InitialDelay * BackoffFactor^k, k being the number of
\* sleeps of the run before it, on whichever client they happened, and the
\* event after a switch is the next call, never a sleep.
C7_FailoverKeepsDelay ==
    \A r \in Reqs :
        LET log == rq[r].log
        IN  /\ \A p \in Positions(log, "sleep") : OnSchedule(log, p)
            /\ \A p \in Positions(log, "switch") : p < Len(log) => log[p + 1].t = "call"

\* One transient retry, a failover, and a transient failure of the new
\* client, whose sleep lasts InitialDelay * BackoffFactor.
C7_Witness ==
    \E r \in Reqs :
        LET log == rq[r].log
        IN  \E p, q, u \in 1..Len(log) :
              /\ p < q /\ q < u
              /\ log[p].t = "sleep" /\ log[q].t = "switch" /\ log[u].t = "sleep"
              /\ Cardinality({v \in Positions(log, "sleep") : v < u}) = 1
              /\ log[u].d = InitialDelay * BackoffFactor

\* C8: when an attempt fails with quota-exceeded and no later client is
\* enrolled, the run settles in that very step with that error: nothing is
\* added to the run but the failure (no call, no sleep) and the index stays.
C8_ExhaustedPoolFailsAtOnce ==
    [][\A r \in Reqs :
         (FailedWith(r, IsQuota) /\ ~(activeClientIndex + 1 < Len(clients)))
            => /\ rq'[r].pc = "ret"
               /\ ~rq'[r].runRes.ok
               /\ rq'[r].runRes.err = rq'[r].log[Len(rq'[r].log)].error
               /\ Len(rq'[r].log) = Len(rq[r].log) + 1
               /\ activeClientIndex' = activeClientIndex]_vars

\* A run settled with the quota error of the last client.
C8_Witness ==
    \E r \in Reqs :
        LET s == rq[r]
        IN  /\ s.pc = "ret"
            /\ ~s.runRes.ok
            /\ IsQuota(s.runRes.err)
            /\ s.log[Len(s.log)].t = "err"
            /\ activeClientIndex = Len(clients) - 1

C11_OtherErrorPropagates ==
    [][\A r \in Reqs :
         FailedWith(r, IsOther)
            => /\ rq'[r].pc = "ret"
               /\ ~rq'[r].runRes.ok
               /\ rq'[r].runRes.err = rq'[r].log[Len(rq'[r].log)].error
               /\ Len(rq'[r].log) = Len(rq[r].log) + 1
               /\ activeClientIndex' = activeClientIndex]_vars

\* A run settled with another error after its only call, a second client
\* being enrolled and untouched.
C11_Witness ==
    \E r \in Reqs :
        LET s == rq[r]
        IN  /\ s.pc = "ret"
            /\ ~s.runRes.ok
            /\ IsOther(s.runRes.err)
            /\ Count(s.log, "call") = 1
            /\ Len(s.log) = 2
            /\ Len(clients) = 2
            /\ activeClientIndex = 0

\* C12: once the pool is initialised with no client, no request ever has an
\* operation in flight, sleeps or waits for a run (every dispatch responds
\* in the step it arrives), every dispatch of a POST responds 500 with the
\* configuration message, and getActiveClient yields the configuration
\* error, which runAiOperationWithFallback rethrows without retry or sleep.
C12_EmptyPoolIsConfigError ==
    (initialized /\ Len(clients) = 0) =>
        /\ \A r \in Reqs :
             /\ rq[r].pc \in {"idle", "done"}
             /\ rq[r].log = <<>>
             /\ (rq[r].pc = "done" /\ rq[r].res.status # 405)
                    => rq[r].res = [status |-> 500, kind |-> "message", val |-> ConfigMessage]
        /\ LET g == GetActiveClient(clients, activeClientIndex)
           IN  /\ ~g.ok
               /\ g.err.message = ConfigMessage
               /\ OnError(Classify(g.err), FALSE) = "throw"

\* A POST was dispatched while no client is enrolled and answered with the
\* configuration error.
C12_Witness ==
    /\ initialized
    /\ Len(clients) = 0
    /\ \E r \in Reqs :
         /\ rq[r].pc = "done"
         /\ rq[r].action \in KnownActions
         /\ rq[r].res = [status |-> 500, kind |-> "message", val |-> ConfigMessage]

\* C13: the failover is sticky: no step ever lowers the active index, and
\* the first attempt of every run a newly arrived request starts is made
\* with the client the index points to at that moment.  With clients A and
\* B, once a run has failed over the index is 1 for ever, and every later
\* run begins on B.
C13_FailoverIsSticky ==
    [][/\ activeClientIndex' >= activeClientIndex
       /\ (activeClientIndex = 1 => activeClientIndex' = 1)
       /\ \A r \in Reqs :
            (rq[r].pc = "idle" /\ rq'[r].pc = "await")
               => /\ rq'[r].client = activeClientIndex
                  /\ rq'[r].startIndex = activeClientIndex
                  /\ rq'[r].log = <<[t |-> "call", used |-> activeClientIndex]>>]_vars

\* After a failover to the second client, a request that arrived later ran
\* on it from its first attempt and succeeded.
C13_Witness ==
    /\ Len(clients) = 2
    /\ activeClientIndex = 1
    /\ \E r \in Reqs :
         /\ rq[r].pc = "ret"
         /\ rq[r].runRes.ok
         /\ rq[r].startIndex = 1
         /\ Len(rq[r].log) = 2
         /\ rq[r].log[1] = [t |-> "call", used |-> 1]

\* C14: whatever the pool holds, a dispatch whose action name is not one of
\* the known actions is answered with a status in 400..499 (and has executed
\* no operation: it responded in the step it arrived).
C14_UnknownActionIs400 ==
    \A r \in Reqs :
        (rq[r].pc = "done" /\ rq[r].action \notin KnownActions)
            => rq[r].res.status \in 400..499

\* C16: the attempts of a run are strictly sequential.  In the log of a
\* run every call is followed by its own outcome before anything else
\* happens, so the calls begun exceed the calls settled by at most one, and
\* by one exactly while the request awaits its operation; every call but
\* the first comes after the failure of the previous one (directly after
\* the sleep or the switch that followed that failure).
C16_AttemptsAreSequential ==
    \A r \in Reqs :
        LET log == rq[r].log
            calls == Positions(log, "call")
            settled == Positions(log, "err") \cup Positions(log, "ok")
            inFlight == Cardinality(calls) - Cardinality(settled)
        IN  /\ inFlight \in {0, 1}
            /\ inFlight = 1 <=> rq[r].pc = "await"
            /\ rq[r].pc = "await" => log[Len(log)].t = "call"
            /\ \A p \in calls :
                 /\ p < Len(log) => log[p + 1].t \in {"err", "ok"}
                 /\ p > 1 => /\ log[p - 1].t \in {"sleep", "switch"}
                             /\ log[p - 2].t = "err"

\* A run in its third attempt, after a transient retry and a failover.
C16_Witness ==
    \E r \in Reqs :
        /\ rq[r].pc = "await"
        /\ Count(rq[r].log, "call") = 3
        /\ Count(rq[r].log, "sleep") = 1
        /\ Count(rq[r].log, "switch") = 1
        /\ rq[r].client = 1

\* C17 (as stated): the scenario needs a pool of three clients, so that two
\* requests can each advance the index and the index reaches 2: a process
\* whose environment variables both hold a secret, the two distinct, has
\* at least three clients enrolled.
C17_PoolHoldsThree ==
    (initialized /\ env.API_KEY # "" /\ env.GEMINI_API_KEY # ""
        /\ env.API_KEY # env.GEMINI_API_KEY)
        => Len(clients) >= 3

\* C17 (amended): the shared index is not synchronised, but the pool holds
\* at most two clients, so the index never exceeds 1 and at most one of the
\* concurrent runs has advanced it; a run that switched continues on the
\* very next client (none is skipped).  The race shows differently: a run
\* on the first of two clients that fails with quota-exceeded without
\* having switched was overtaken by another request, which advanced the
\* index meanwhile; it fails though it never attempted the second client.
C17_AtMostOneAdvance ==
    /\ Len(clients) <= 2
    /\ activeClientIndex <= 1
    /\ Cardinality({r \in Reqs : Positions(rq[r].log, "switch") # {}}) <= 1
    /\ \A r \in Reqs :
         LET s == rq[r]
             calls == Positions(s.log, "call")
         IN  /\ \A p \in Positions(s.log, "switch") :
                  p < Len(s.log) => s.log[p + 1].used = s.log[p - 2].used + 1
             /\ (/\ s.pc = "ret"
                 /\ ~s.runRes.ok
                 /\ IsQuota(s.runRes.err)
                 /\ Positions(s.log, "switch") = {}
                 /\ \A p \in calls : s.log[p].used = 0
                 /\ Len(clients) = 2)
                    => (s.intr /\ activeClientIndex = 1)

\* Two requests received quota-exceeded from the first client: one advanced
\* the index, the other failed without ever attempting the second client.
C17_Witness ==
    /\ Len(clients) = 2
    /\ activeClientIndex = 1
    /\ \E r, q \in Reqs :
         /\ r # q
         /\ rq[r].pc = "ret"
         /\ IsQuota(rq[r].runRes.err)
         /\ rq[r].intr
         /\ \A p \in Positions(rq[r].log, "call") : rq[r].log[p].used = 0
         /\ rq[q].pc = "await"
         /\ rq[q].log[1].used = 0
         /\ Positions(rq[q].log, "switch") # {}

\* C18: initialize is idempotent and the pool is immutable: the pool
\* changes only in the step of the first initialize, where it becomes the
\* clients enrolled from the environment; every step of an initialized
\* process, the arrival of a request with its initialize included, leaves
\* contents, order and size of the pool unchanged, and no arrival moves the
\* active index.
C18_InitializeIsIdempotent ==
    [][/\ initialized => (initialized' /\ clients' = clients)
       /\ clients' # clients
            => (~initialized /\ initialized' /\ clients' = EnrolledClients(env))
       /\ \A r \in Reqs :
            (rq[r].pc = "idle" /\ rq'[r].pc # "idle")
               => activeClientIndex' = activeClientIndex]_vars

\* A request arrived, and initialize ran again, after a failover: the pool
\* and the index are as the failover left them.
C18_Witness ==
    /\ initialized
    /\ clients = <<"kA", "kB">>
    /\ activeClientIndex = 1
    /\ \E r \in Reqs : rq[r].pc = "await" /\ rq[r].startIndex = 1

\* C19: the pool of an initialized process holds the configured secrets,
\* the primary before the fallback, each once: its size is the number of
\* distinct configured secrets (0, 1 or 2), no secret occurs twice, an
\* unset variable enrols nothing, and when both variables hold distinct
\* secrets the primary is first and the fallback second.
C19_PoolIsDistinctConfigured ==
    initialized =>
        LET configured == {env.API_KEY, env.GEMINI_API_KEY} \ {""}
        IN  /\ Len(clients) = Cardinality(configured)
            /\ Len(clients) \in {0, 1, 2}
            /\ {clients[p] : p \in 1..Len(clients)} = configured
            /\ \A p, q \in 1..Len(clients) : clients[p] = clients[q] => p = q
            /\ env.API_KEY # "" => clients[1] = env.API_KEY
            /\ Len(clients) = 2 => clients[2] = env.GEMINI_API_KEY

\* Both variables hold the same secret: it is enrolled once.
C19_Witness ==
    /\ initialized
    /\ env.API_KEY = "kA"
    /\ env.GEMINI_API_KEY = "kA"
    /\ clients = <<"kA">>
    /\ \E r \in Reqs : rq[r].pc = "await" /\ rq[r].client = 0

\* C15: a dispatch that fails after one of its runs ended on a propagated
\* quota error responds with the status of that error, 429, and with its
\* message; one that fails after the transient retries ran out responds
\* 500 with the message of the transient error.
C15_FailureKeepsStatusAndReason ==
    \A r \in Reqs :
        LET s == rq[r]
        IN  (s.pc = "done" /\ s.res.status \notin 200..299)
                => /\ s.runFailed = "exhausted"
                        => (s.res.status = 429 /\ s.res.val = E429.message)
                   /\ s.runFailed = "retries"
                        => (s.res.status = 500 /\ s.res.val = E503.message)

\* C20: when the recipe resumes with generateWithSchema on a text that is
\* empty or white space only, the dispatch fails with the empty-response
\* error, and on a text of plain words it fails with the parse error whose
\* message ends with the candidate, the trimmed text, verbatim; in both
\* cases the response is a failure message and no value.
C20_BlankAndProseFail ==
    [][\A r \in Reqs :
         (/\ rq[r].pc = "ret"
          /\ rq[r].runRes.ok
          /\ rq'[r].pc = "done"
          /\ [file |-> file, action |-> rq[r].action] \in Probes)
            => LET text == rq[r].runRes.text
                   res == rq'[r].res
               IN  /\ IsBlank(text)
                        => /\ res.status = 500
                           /\ res.kind = "message"
                           /\ res.val[2] = "AI returned an empty response."
                           /\ res.val[3] = <<>>
                   /\ IsProse(text)
                        => /\ res.status = 500
                           /\ res.kind = "message"
                           /\ res.val[2] = "SyntaxError"
                           /\ res.val[3] = Trim(text)]_vars

\* The second handler file answered a dispatch whose text was the two
\* words "not json" between blanks with the parse error carrying the words.
C20_Witness ==
    /\ file = File003
    /\ rq[1].pc = "done"
    /\ rq[1].res.status = 500
    /\ rq[1].res.kind = "message"
    /\ Len(rq[1].res.val) = 3
    /\ rq[1].res.val[2] = "SyntaxError"
    /\ rq[1].res.val[3] = <<"w", " ", "j">>

\* C25: a run ends on a quota error (the pool reported as exhausted) only
\* when the attempt that just failed was made with the last enrolled
\* client, whatever other requests did meanwhile.
C25_ExhaustedOnlyOnLastClient ==
    \A r \in Reqs :
        LET s == rq[r]
            calls == Positions(s.log, "call")
            lastCall == CHOOSE p \in calls : \A q \in calls : q <= p
        IN  (s.pc = "ret" /\ ~s.runRes.ok /\ IsQuota(s.runRes.err))
                => s.log[lastCall].used = Len(clients) - 1

\* C26: every attempt a request begins talks to the client that is active
\* at that moment, the attempts of the message-send run of the two chat
\* recipes included.
C26_AttemptUsesActiveClient ==
    [][\A r \in Reqs :
         (rq'[r].pc = "await" /\ rq'[r].log # rq[r].log)
            => rq'[r].client = activeClientIndex']_vars

\* C28: a failover hands the re-invocation a budget of at least one
\* attempt and the attempt is made at once with the newly activated
\* client: the step that switches leaves the request awaiting a call to
\* the new client, with attempts left, so no run ends on a switch.
C28_FailoverIsFollowedByAttempt ==
    /\ \A r \in Reqs :
         LET s == rq[r]
         IN  /\ s.pc \in {"await", "sleep"} => (s.retries >= 1 /\ s.i < s.retries)
             /\ \A p \in Positions(s.log, "switch") :
                  /\ p < Len(s.log)
                  /\ s.log[p + 1].t = "call"
                  /\ s.log[p + 1].used = s.log[p - 2].used + 1
                        \/ s.log[p + 1].used = Len(clients) - 1

\* A run failed over after two transient failures, when one attempt of its
\* budget was left, and is making that attempt with the second client.
C28_Witness ==
    \E r \in Reqs :
        LET s == rq[r]
        IN  /\ s.pc = "await"
            /\ s.retries = 1
            /\ s.i = 0
            /\ s.client = 1
            /\ s.log[Len(s.log) - 1].t = "switch"
            /\ Count(s.log, "sleep") = 2

\* C27: every run terminates, with a value or a failure, when every
\* operation returns and every sleep ends, also while other requests
\* advance the index: a request that awaits its operation or sleeps comes to
\* the point where its run has settled; and a run fails over at most
\* poolSize - 1 times and executes the operation at most
\* MaxAttempts * poolSize times.
C27_RunTerminates ==
    /\ [](\A r \in Reqs :
            /\ Count(rq[r].log, "switch") <= Len(clients) - 1
                  \/ rq[r].log = <<>>
            /\ Count(rq[r].log, "call") <= MaxAttempts * Len(clients))
    /\ \A r \in Reqs : (rq[r].pc \in {"await", "sleep"}) ~> (rq[r].pc = "ret")

\* A run that used its failover and then slept is still going.
C27_Witness ==
    \E r \in Reqs :
        /\ rq[r].pc = "sleep"
        /\ Count(rq[r].log, "switch") = 1
        /\ Count(rq[r].log, "call") = 4

(***************************************************************************)
(* Reading the response of an extraction.                                  *)
(***************************************************************************)

\* The response res is what the try block yields on the candidate cand: the
\* parsed value, or a failure whose message carries the candidate.
Yields(res, cand) ==
    IF cand = <<>>
    THEN res.status = 500 /\ res.kind = "message"
           /\ res.val[2] = "AI returned an empty response."
    ELSE IF JsonParse(cand) = Null
    THEN res.status = 500 /\ res.kind = "message"
           /\ res.val[2] = "SyntaxError" /\ res.val[3] = cand
    ELSE res.status = 200 /\ res.val = JsonParse(cand)

\* The content of the first fenced block of a text, from the first fence to
\* the next one, without the tag json and the white space around it; Undef
\* when the text holds no two fences.
FencedContent(text) ==
    LET fences == {p \in 1..Len(text) : text[p] = "F"}
        open == CHOOSE p \in fences : \A q \in fences : p <= q
        later == fences \ {open}
        close == CHOOSE p \in later : \A q \in later : p <= q
        inner == SubSeq(text, open + 1, close - 1)
    IN  IF Cardinality(fences) < 2 THEN Undef
        ELSE Trim(IF inner # <<>> /\ Head(inner) = "j" THEN Tail(inner) ELSE inner)

\* The span from the first opening to the last closing delimiter; Undef
\* when there is none.
Span(text, opening, closing) ==
    IF IndexOf(text, opening) # 0 /\ LastIndexOf(text, closing) > IndexOf(text, opening)
    THEN SubSeq(text, IndexOf(text, opening), LastIndexOf(text, closing))
    ELSE Undef

\* Request r resumes here with the text its run returned and responds, and
\* the response is the outcome of the extraction itself.
Extracts(r) ==
    /\ rq[r].pc = "ret"
    /\ rq[r].runRes.ok
    /\ rq'[r].pc = "done"
    /\ [file |-> file, action |-> rq[r].action] \in PassProbes

\* C21: round trip.  For every structured value V of the shape the request
\* expects, when the run returned the serialisation of V in a fenced block,
\* tagged or not, with or without plain commentary around it, the
\* extraction responds with a value equal to V.
C21_FencedRoundTrip ==
    [][\A r \in Reqs :
         Extracts(r)
            => \A v \in ValuesUpTo(MaxDepth), f \in Wraps :
                 (/\ v.kind = (IF ExpectsArray(rq[r].action) THEN "array" ELSE "object")
                  /\ f.fence
                  /\ f.pre \in PlainCommentary
                  /\ f.post \in PlainCommentary
                  /\ rq[r].runRes.text = Wrap(Stringify(v), f))
                    => /\ rq'[r].res.status = 200
                       /\ rq'[r].res.val = v]_vars

\* C22: on a text without any fence the candidate is the span from the
\* first opening to the last closing delimiter, of the array when the
\* request expects an array and of the object otherwise, so that an
\* object-shaped request gets the whole object even when an array is
\* inside it.
C22_SpanFollowsShape ==
    [][\A r \in Reqs :
         (Extracts(r) /\ IndexOf(rq[r].runRes.text, "F") = 0)
            => LET text == Trim(rq[r].runRes.text)
                   span == IF ExpectsArray(rq[r].action)
                           THEN Span(text, "[", "]")
                           ELSE Span(text, "{", "}")
               IN  span # Undef => Yields(rq'[r].res, span)]_vars

\* C23: the strategies in their order.  When the trimmed text holds a
\* fenced block with content, tagged or not, the candidate is the content
\* of the block, whatever stands outside it; when it holds no fence and no
\* bracket span, the candidate is the trimmed text.
C23_FenceComesFirst ==
    [][\A r \in Reqs :
         Extracts(r)
            => LET text == Trim(rq[r].runRes.text)
                   inner == FencedContent(text)
               IN  /\ (inner # Undef /\ inner # <<>>) => Yields(rq'[r].res, inner)
                   /\ (/\ IndexOf(text, "F") = 0
                       /\ Span(text, "[", "]") = Undef
                       /\ Span(text, "{", "}") = Undef)
                         => Yields(rq'[r].res, text)]_vars

(***************************************************************************)
(* Reading the version histories and the store.                            *)
(***************************************************************************)
Min(a, b) == IF a < b THEN a ELSE b

\* This step is the commit of a save.
Committed == app.saving.active /\ ~app'.saving.active /\ app'.clock # app.clock

\* The database holds a WBS and fewer than WbsThreshold issues were added
\* since the count recorded with it.
Fresh(d) == d.wbs.stored /\ Len(d.issues) - d.issueCountForWbs < WbsThreshold

\* C24: every save of an existing persona creates one version entry with
\* the state before the save, placed first, and the history keeps the
\* HistoryLimit newest entries: the entries of earlier saves follow in
\* their order and the oldest one is dropped once the limit is reached;
\* the save that creates a persona makes no entry.  After n saves of an
\* existing persona its history holds min(n, HistoryLimit) entries.
C24_SaveKeepsNewestVersions ==
    /\ [](\A k \in 1..Len(app.personas) :
            Len(app.personas[k].history)
                = Min(app.versions[app.personas[k].id], HistoryLimit))
    /\ [][Committed =>
            LET k == Find(app.personas, app.saving.id)
                old == app.personas[k]
                new == app'.personas[k]
            IN  IF k # 0
                THEN /\ Len(app'.personas) = Len(app.personas)
                     /\ \A j \in 1..Len(app.personas) :
                            j # k => app'.personas[j] = app.personas[j]
                     /\ new.id = old.id
                     /\ new.state = app.saving.state
                     /\ Len(new.history) = Min(Len(old.history) + 1, HistoryLimit)
                     /\ new.history[1].state = old.state
                     /\ \A e \in 2..Len(new.history) : new.history[e] = old.history[e - 1]
                ELSE /\ Len(app'.personas) = Len(app.personas) + 1
                     /\ \A j \in 1..Len(app.personas) : app'.personas[j] = app.personas[j]
                     /\ app'.personas[Len(app'.personas)].state = app.saving.state
                     /\ app'.personas[Len(app'.personas)].history = <<>>]_vars

\* The eleventh save of the default persona has committed: its history
\* holds HistoryLimit entries, the newest made by this save.
C24_Witness ==
    \E k \in 1..Len(app.personas) :
        /\ app.versions[app.personas[k].id] > HistoryLimit
        /\ Len(app.personas[k].history) = HistoryLimit
        /\ app.personas[k].history[1].timestamp = app.clock
        /\ ~app.saving.active

\* C24 as stated: every version an earlier save created stays in the
\* history behind the new entry, and after n saves the history holds n
\* entries.
C24_EveryVersionStays ==
    /\ [](\A k \in 1..Len(app.personas) :
            Len(app.personas[k].history) = app.versions[app.personas[k].id])
    /\ [][Committed =>
            LET k == Find(app.personas, app.saving.id)
            IN  k # 0 => /\ Len(app'.personas[k].history) = Len(app.personas[k].history) + 1
                         /\ app'.personas[k].history[1].state = app.personas[k].state
                         /\ \A e \in 1..Len(app.personas[k].history) :
                                app'.personas[k].history[e + 1] = app.personas[k].history[e]]_vars

\* C29: getWbsHandler answers with the stored WBS, without a generation
\* and without a write, only when the stored database holds a WBS and
\* fewer than five issues were added since the recorded count, and starts
\* a generation only when that is not so; a regeneration that succeeds
\* stores the new WBS with the issue count, and one that fails leaves the
\* stored database as it is.
C29_StoredWbsUnlessFiveAdded ==
    [][\A c \in Callers :
         st[c].handler = "getWbs"
            => /\ (st[c].pc = "read" /\ st'[c].pc = "done" /\ st'[c].res.status = 200)
                    => /\ Fresh(db)
                       /\ st'[c].res.val = <<db.wbs>>
                       /\ db' = db
               /\ (st[c].pc = "read" /\ st'[c].pc = "generate") => ~Fresh(db)
               /\ (st[c].pc = "generate" /\ st'[c].pc = "done") => db' = db
               /\ (st[c].pc = "write" /\ st'[c].pc = "done" /\ st'[c].res.status = 200)
                    => /\ db'.wbs.stored
                       /\ st'[c].res.val = <<db'.wbs>>
                       /\ db'.wbs = GenerateWBS(st[c].data.issues)
                       /\ db'.issueCountForWbs = Len(db'.issues)]_vars

\* C30: no acknowledged update is lost.  Every issue createIssueHandler
\* answered with 201 is in the stored database, and the stored personas
\* are the list of the last savePersonasHandler that answered with 200.
C30_NoUpdateIsLost ==
    /\ \A id \in ledger.acked : \E k \in 1..Len(db.issues) : db.issues[k] = id
    /\ db.personas = ledger.saved
====
